---- MODULE Spec2Model ----
(***************************************************************************)
(* Model of tools/auto_bisect/fetch_build.py: resolution of the build      *)
(* archive location, download of the archive from cloud storage and its    *)
(* extraction into the output directory.                                   *)
(***************************************************************************)
EXTENDS Integers, Sequences, FiniteSets, TLC

(***************************************************************************)
(* Bounds of the model.                                                    *)
(***************************************************************************)
\* an archive holds at most MaxEntries entries, named f1 .. fMaxEntries
MaxEntries == 2
\* exit codes of the extraction command range over 0 .. MaxExitCode
MaxExitCode == 1

(***************************************************************************)
(* Input domains.                                                          *)
(***************************************************************************)
PERF_BUILDER == "perf"
FULL_BUILDER == "full"

HostOSes == {"linux", "mac", "win", "other"}
Hosts == [os : HostOSes, bits64 : BOOLEAN]
BuilderTypes == {PERF_BUILDER, FULL_BUILDER, "try"}
TargetArchs == {"ia32", "x64"}
TargetPlatforms == {"chromium", "android"}
Revisions == {"12345", "R1"}
\* Python's None is the empty tuple, a supplied hash h is <<h>>
None == <<>>
DepsPatchShas == {None, <<"abcd">>}
Platforms == {"android", "linux", "mac", "win64", "win"}

OutputDir == "out"
OrigCwd == "/b"
\* the archive handed to a direct call of Unzip, outside the output directory
LooseArchive == "/tmp/build.zip"
\* names a file may have in the output directory before the call
PreNames == {"f1", "full-build-linux_12345.zip"}

EntryName(i) == "f" \o ToString(i)
\* the name lists of the archives of the model: f1, f1 f2, ...
Archives == {[i \in 1..n |-> EntryName(i)] : n \in 0..MaxEntries}
\* A file size is the number hi * 2^16 + lo with 0 <= lo < 2^16: the sizes of
\* the model exceed the integers of the model checker.
Radix == 65536
Size(hi, lo) == [hi |-> hi, lo |-> lo]
SizeLess(a, b) == a.hi < b.hi \/ (a.hi = b.hi /\ a.lo < b.lo)
\* 2 ** 32
mac_zip_size_limit == Size(Radix, 0)
ArchiveSizes == {Size(0, 1000), Size(Radix - 1, Radix - 1), Size(Radix, 0),
                 Size(Radix, 1)}

\* The external file attributes of an entry are a 32-bit number, kept like a
\* size as hi * 2^16 + lo: hi holds the Unix mode, lo the DOS attributes.
\* Entry i of an archive carries the attributes EntryAttr(i): 0100755 for an
\* odd i and 0100600 for an even i, with the DOS archive bit.
EntryAttr(i) == Size(IF i % 2 = 1 THEN 33261 ELSE 33152, 32)
\* external_attr >> 16
ShiftRight16(a) == a.hi
\* the mode of a file that open() creates: 0100644
DefaultMode == 33188

(***************************************************************************)
(* Host capability queries (bisect_utils).  Is64BitWindows holds on        *)
(* Windows hosts only.                                                     *)
(***************************************************************************)
IsLinuxHost(h) == h.os = "linux"
IsMacHost(h) == h.os = "mac"
IsWindowsHost(h) == h.os = "win"
Is64BitWindows(h) == h.os = "win" /\ h.bits64

(***************************************************************************)
(* Path helpers (os.path), with the separator of posixpath on every host. *)
(***************************************************************************)
RECURSIVE LastSep(_, _)
LastSep(s, i) ==
  IF i = 0 THEN 0
  ELSE IF SubSeq(s, i, i) = "/" THEN i ELSE LastSep(s, i - 1)

Basename(s) == SubSeq(s, LastSep(s, Len(s)) + 1, Len(s))

Dirname(s) ==
  LET k == LastSep(s, Len(s)) IN IF k <= 1 THEN SubSeq(s, 1, k)
                                 ELSE SubSeq(s, 1, k - 1)

PathJoin(a, b) ==
  IF Len(b) > 0 /\ SubSeq(b, 1, 1) = "/" THEN b
  ELSE IF a = "" \/ SubSeq(a, Len(a), Len(a)) = "/" THEN a \o b
  ELSE a \o "/" \o b

Abspath(cwdir, p) == PathJoin(cwdir, p)

(***************************************************************************)
(* BuildArchive and its two subclasses.                                    *)
(***************************************************************************)
\* BuildArchive.__init__ with the Linux rule ahead of the android rule
BuildArchiveInitLinuxFirst(h, target_arch, target_platform) ==
  IF IsLinuxHost(h) THEN "linux"
  ELSE IF IsLinuxHost(h) /\ target_platform = "android" THEN "android"
  ELSE IF IsMacHost(h) THEN "mac"
  ELSE IF Is64BitWindows(h) /\ target_arch = "x64" THEN "win64"
  ELSE IF IsWindowsHost(h) THEN "win"
  ELSE "raise"

\* BuildArchive.__init__: the platform, or "raise" for NotImplementedError
BuildArchiveInit(h, target_arch, target_platform) ==
  IF IsLinuxHost(h) /\ target_platform = "android" THEN "android"
  ELSE IF IsLinuxHost(h) THEN "linux"
  ELSE IF IsMacHost(h) THEN "mac"
  ELSE IF Is64BitWindows(h) /\ target_arch = "x64" THEN "win64"
  ELSE IF IsWindowsHost(h) THEN "win"
  ELSE "raise"

PlatformName(platform) ==
  IF platform \in {"win", "win64"} THEN "win32"
  ELSE IF platform \in {"linux", "android"} THEN "linux"
  ELSE IF platform = "mac" THEN "mac"
  ELSE "raise"

\* line 131 with a test that never holds
TruthyNever(deps_patch_sha) == FALSE

Truthy(deps_patch_sha) == deps_patch_sha # None /\ deps_patch_sha[1] # ""

\* _ZipFileName that names win64 archives after their own platform
ZipFileNameOwnPlatform(platform, revision, deps_patch_sha) ==
  LET base_name == "full-build-" \o (IF platform = "win64" THEN "win64"
                                     ELSE PlatformName(platform))
      rev == IF Truthy(deps_patch_sha)
             THEN revision \o "_" \o deps_patch_sha[1]
             ELSE revision
  IN base_name \o "_" \o rev \o ".zip"

ZipFileName(platform, revision, deps_patch_sha) ==
  LET base_name == "full-build-" \o PlatformName(platform)
      rev == IF Truthy(deps_patch_sha)
             THEN revision \o "_" \o deps_patch_sha[1]
             ELSE revision
  IN base_name \o "_" \o rev \o ".zip"

PerfArchiveDirectory ==
  [android |-> "android_perf_rel",
   linux |-> "Linux Builder",
   mac |-> "Mac Builder",
   win64 |-> "Win x64 Builder",
   win |-> "Win Builder"]

FullArchiveDirectory ==
  [android |-> "android_main_rel",
   linux |-> "chromium.linux/Linux Builder",
   mac |-> "chromium.mac/Mac Builder",
   win64 |-> "chromium.win/Win x64 Builder",
   win |-> "chromium.win/Win Builder"]

\* the bucket table without its win64 entry
FullBucketWithoutWin64 ==
  [android |-> "chromium-android",
   linux |-> "chromium-linux-archive",
   mac |-> "chromium-mac-archive",
   win |-> "chromium-win-archive"]

FullBucket ==
  [android |-> "chromium-android",
   linux |-> "chromium-linux-archive",
   mac |-> "chromium-mac-archive",
   win64 |-> "chromium-win-archive",
   win |-> "chromium-win-archive"]

ArchiveDirectory(builder_type, platform) ==
  IF builder_type = PERF_BUILDER THEN PerfArchiveDirectory[platform]
  ELSE FullArchiveDirectory[platform]

BucketName(builder_type, platform) ==
  IF builder_type = PERF_BUILDER THEN "chrome-perf"
  ELSE FullBucket[platform]

FilePath(builder_type, platform, revision, deps_patch_sha) ==
  ArchiveDirectory(builder_type, platform) \o "/"
    \o ZipFileName(platform, revision, deps_patch_sha)

(***************************************************************************)
(* State.                                                                  *)
(***************************************************************************)
VARIABLES
  host,         \* the host the script runs on
  sevenzip,     \* os.path.exists(sevenzip_path)
  call,         \* the entry point of this run: "FetchBuild" or "Unzip"
  args,         \* the arguments of FetchBuild
  store,        \* the remote object: present, namelist, size
  pre,          \* the output path before the call: dirExists, files, and
                \* isFile when the path is a regular file
  dirExists,    \* the output directory exists
  files,        \* the files of the output directory: name -> content
  modes,        \* the mode of the files of the output directory
  cwd,          \* os.getcwd()
  pc,           \* the position in the code
  platform,     \* BuildArchive._platform
  bucket, remote_path,          \* locals of FetchBuild
  target_file, fetched,         \* local and result of FetchFromCloudStorage
  exists_result, get_result,    \* what Exists and Get did: "none" before
  filename,                     \* the archive Unzip extracts
  archive_size,                 \* os.path.getsize(filename)
  strategy, command,            \* the extraction strategy and its command
  saved_dir, return_code,       \* locals of _RunCommandInDirectory
  idx,                          \* position of the loop of _UnzipUsingZipFile
  exc,                          \* the exception that ended the run
  existsCalls, getCalls,        \* calls of cloud_storage.Exists and .Get
  stages,                       \* the stages FetchBuild has entered, in order
  stdout, exit_code,            \* the message and the exit status of Main
  \* two threads of one process in _RunCommandInDirectory
  t_pc,                         \* the position of each thread
  t_directory,                  \* the argument directory of each thread
  t_saved_dir, t_return_code,   \* the locals of each thread
  t_ran_in,                     \* the directory the command of a thread ran in
  \* a device and a PerfControl object, perf_control.py
  root,                         \* old_interface.IsRootEnabled()
  product_model,                \* old_interface.GetProductModel()
  num_cpu_cores,                \* PerfControl._num_cpu_cores
  have_mpdecision,              \* PerfControl._have_mpdecision
  mpdecision,                   \* the mpdecision service is running
  online,                       \* cpu -> content of its online file
  governor, max_freq,           \* cpu -> scaling_governor, scaling_max_freq
  max_gpuclk,                   \* content of max_gpuclk
  device_log,                   \* the commands and writes sent to the device
  method_calls,                 \* the methods of PerfControl called so far
  ppc, cpu,                     \* the position in the method, the loop index
  perf_exc                      \* the exception that ended the method

inputs == <<host, sevenzip, call, args, store, pre>>
fsys == <<dirExists, files, modes>>
located == <<platform, bucket, remote_path>>
fetchv == <<target_file, fetched, exists_result, get_result, existsCalls,
           getCalls>>
unzipv == <<filename, archive_size, strategy, command, saved_dir, return_code,
           idx>>
mainv == <<stdout, exit_code>>
threadv == <<t_pc, t_directory, t_saved_dir, t_return_code, t_ran_in>>
devicev == <<root, product_model, num_cpu_cores, have_mpdecision, mpdecision,
            online, governor, max_freq, max_gpuclk, device_log, method_calls,
            ppc, cpu, perf_exc>>
others == <<threadv, devicev>>
vars == <<inputs, fsys, cwd, pc, located, fetchv, unzipv, exc, stages,
         mainv, others>>

EmptyDir == [n \in {} |-> ""]
\* the exit status of a process that has not exited
NoExit == -1
NoExc == [type |-> "none", msg |-> "", command |-> <<>>, code |-> 0]
Raise(type, msg) == [type |-> type, msg |-> msg, command |-> <<>>, code |-> 0]

\* os.path.exists of a path inside the output directory, or of the loose
\* archive
PathExists(p) ==
  IF p = LooseArchive THEN TRUE
  ELSE dirExists /\ Dirname(p) = OutputDir /\ Basename(p) \in DOMAIN files

\* the file system after a write of content c to file n of the output
\* directory
WriteFile(f, n, c) == [m \in DOMAIN f \cup {n} |-> IF m = n THEN c ELSE f[m]]
RemoveFile(f, n) == [m \in DOMAIN f \ {n} |-> f[m]]

\* the archive at path p is a complete zip file
IsZip(p) ==
  IF p = LooseArchive THEN TRUE
  ELSE IF PathExists(p) THEN files[Basename(p)] = "zip" ELSE FALSE

\* no thread of the process is in _RunCommandInDirectory
ThreadsParked ==
  /\ t_pc = <<>>
  /\ t_directory = <<>>
  /\ t_saved_dir = <<>>
  /\ t_return_code = <<>>
  /\ t_ran_in = <<>>

\* no PerfControl object exists
DeviceParked ==
  /\ root = FALSE
  /\ product_model = ""
  /\ num_cpu_cores = 0
  /\ have_mpdecision = FALSE
  /\ mpdecision = FALSE
  /\ online = <<>>
  /\ governor = <<>>
  /\ max_freq = <<>>
  /\ max_gpuclk = 0
  /\ device_log = <<>>
  /\ method_calls = <<>>
  /\ ppc = "none"
  /\ cpu = 0
  /\ perf_exc = ""

Init ==
  /\ host \in Hosts
  /\ sevenzip \in BOOLEAN
  /\ call \in {"FetchBuild", "Unzip"}
  /\ IF call = "FetchBuild"
     THEN args \in [builder_type : BuilderTypes, revision : Revisions,
                    target_arch : TargetArchs,
                    target_platform : TargetPlatforms,
                    deps_patch_sha : DepsPatchShas]
     ELSE args = [builder_type |-> PERF_BUILDER, revision |-> "12345",
                  target_arch |-> "ia32", target_platform |-> "chromium",
                  deps_patch_sha |-> None]
  /\ store \in [present : IF call = "FetchBuild" THEN BOOLEAN ELSE {TRUE},
                namelist : Archives, size : ArchiveSizes]
  /\ dirExists \in BOOLEAN
  /\ IF dirExists
     THEN \E S \in SUBSET PreNames : files = [n \in S |-> "pre"]
     ELSE files = EmptyDir
  /\ modes = [n \in DOMAIN files |-> DefaultMode]
  /\ \E isFile \in (IF dirExists THEN {FALSE} ELSE BOOLEAN) :
       pre = [dirExists |-> dirExists, files |-> files, isFile |-> isFile]
  /\ cwd = OrigCwd
  /\ pc = call
  /\ platform = "" /\ bucket = "" /\ remote_path = ""
  /\ target_file = "" /\ fetched = None
  /\ exists_result = "none" /\ get_result = "none"
  /\ archive_size = Size(0, 0)
  /\ filename = IF call = "Unzip" THEN LooseArchive ELSE ""
  /\ strategy = "none" /\ command = <<>>
  /\ saved_dir = "" /\ return_code = 0 /\ idx = 0
  /\ exc = NoExc
  /\ existsCalls = 0 /\ getCalls = 0
  /\ stages = <<>>
  /\ stdout = <<>> /\ exit_code = NoExit
  /\ ThreadsParked
  /\ DeviceParked

(***************************************************************************)
(* FetchBuild, lines 53-56: BuildArchive.Create, BucketName, FilePath.     *)
(***************************************************************************)
\* Create that resolves the platform before it looks at the builder type
CreateResultPlatformFirst(builder_type, h, target_arch, target_platform) ==
  LET p == BuildArchiveInit(h, target_arch, target_platform)
  IN IF p = "raise" THEN [kind |-> "platform", platform |-> ""]
     ELSE IF builder_type \notin {PERF_BUILDER, FULL_BUILDER}
     THEN [kind |-> "builder", platform |-> ""]
     ELSE [kind |-> "ok", platform |-> p]

\* BuildArchive.Create, lines 78-97: the builder type is tested, then the
\* constructor of the subclass resolves the platform
CreateResult(builder_type, h, target_arch, target_platform) ==
  IF builder_type \notin {PERF_BUILDER, FULL_BUILDER}
  THEN [kind |-> "builder", platform |-> ""]
  ELSE LET p == BuildArchiveInit(h, target_arch, target_platform)
       IN IF p = "raise" THEN [kind |-> "platform", platform |-> ""]
          ELSE [kind |-> "ok", platform |-> p]

\* the assertions of lines 166, 180 and 196
HasEntries(builder_type, p) ==
  IF builder_type = PERF_BUILDER THEN p \in DOMAIN PerfArchiveDirectory
  ELSE p \in DOMAIN FullBucket /\ p \in DOMAIN FullArchiveDirectory

\* lines 53-56 with every builder type but 'perf' taken for 'full'
CreateFullByDefault ==
  /\ pc = "FetchBuild"
  /\ LET p == BuildArchiveInit(host, args.target_arch, args.target_platform)
         t == IF args.builder_type = PERF_BUILDER THEN PERF_BUILDER
              ELSE FULL_BUILDER
     IN IF p = "raise"
        THEN /\ exc' = Raise("NotImplementedError", "Unknown platform")
             /\ pc' = "raised"
             /\ UNCHANGED located
        ELSE /\ platform' = p
             /\ bucket' = BucketName(t, p)
             /\ remote_path' = FilePath(t, p, args.revision,
                                        args.deps_patch_sha)
             /\ pc' = "Fetch"
             /\ UNCHANGED exc
  /\ stages' = Append(stages, "locate")
  /\ UNCHANGED <<inputs, others, mainv, fsys, cwd, fetchv, unzipv>>

Create ==
  /\ pc = "FetchBuild"
  /\ LET r == CreateResult(args.builder_type, host, args.target_arch,
                           args.target_platform)
     IN IF r.kind = "builder"
        THEN /\ exc' = Raise("NotImplementedError",
                             "Builder type \"" \o args.builder_type
                               \o "\" not supported.")
             /\ pc' = "raised"
             /\ UNCHANGED located
        ELSE IF r.kind = "platform"
        THEN /\ exc' = Raise("NotImplementedError", "Unknown platform")
             /\ pc' = "raised"
             /\ UNCHANGED located
        ELSE IF ~HasEntries(args.builder_type, r.platform)
        THEN /\ exc' = Raise("AssertionError", "")
             /\ pc' = "raised"
             /\ platform' = r.platform
             /\ UNCHANGED <<bucket, remote_path>>
        ELSE /\ platform' = r.platform
             /\ bucket' = BucketName(args.builder_type, r.platform)
             /\ remote_path' = FilePath(args.builder_type, r.platform,
                                        args.revision, args.deps_patch_sha)
             /\ pc' = "Fetch"
             /\ UNCHANGED exc
  /\ stages' = Append(stages, "locate")
  /\ UNCHANGED <<inputs, others, mainv, fsys, cwd, fetchv, unzipv>>

(***************************************************************************)
(* FetchFromCloudStorage, lines 215-229.                                   *)
(***************************************************************************)
\* lines 215-216
FetchEnter ==
  /\ pc = "Fetch"
  /\ target_file' = PathJoin(OutputDir, Basename(remote_path))
  /\ pc' = "Exists"
  /\ stages' = Append(stages, "fetch")
  /\ UNCHANGED <<inputs, others, mainv,
                 fsys, cwd, located, fetched, exists_result,
                 get_result, existsCalls, getCalls, unzipv, exc>>

\* the answer of cloud_storage.Exists, not tested before the transfer
AfterExistsUntested(r) == IF r = "raise" THEN "FetchExcept" ELSE "Get"

\* lines 218, 223, 225: where the answer of cloud_storage.Exists leads
AfterExists(r) ==
  IF r = "raise" THEN "FetchExcept" ELSE IF r = "true" THEN "Get"
  ELSE "FetchNone"

\* line 218: cloud_storage.Exists answers or raises
ExistsCall ==
  /\ pc = "Exists"
  /\ existsCalls' = existsCalls + 1
  /\ \E raises \in BOOLEAN :
       /\ exists_result' = IF raises THEN "raise"
                           ELSE IF store.present THEN "true" ELSE "false"
       /\ pc' = AfterExists(exists_result')
  /\ UNCHANGED <<inputs, others, mainv, stages,
                 fsys, cwd, located, target_file, fetched, get_result,
                 getCalls, unzipv, exc>>

\* the transfer with a second attempt after a failure
GetCallRetries ==
  /\ pc = "Get"
  /\ getCalls' = getCalls + 1
  /\ \E outcome \in {"written", "nothing", "raise", "raise_partial"} :
       /\ pre.isFile => outcome \in {"nothing", "raise"}
       /\ IF outcome \in {"written", "raise_partial"}
          THEN /\ dirExists' = TRUE
               /\ files' = WriteFile(files, Basename(target_file),
                             IF outcome = "written" THEN "zip" ELSE "partial")
               /\ modes' = WriteFile(modes, Basename(target_file),
                                     DefaultMode)
          ELSE UNCHANGED fsys
       /\ get_result' = outcome
       /\ pc' = IF outcome \in {"written", "nothing"} THEN "GetCheck"
                ELSE IF getCalls = 0 THEN "Get" ELSE "FetchExcept"
  /\ UNCHANGED <<inputs, others, mainv, stages,
                 cwd, located, target_file, fetched, exists_result,
                 existsCalls, unzipv, exc>>

\* line 220: cloud_storage.Get writes the whole object, writes nothing, or
\* raises after it wrote nothing or a part of the object; it writes nothing
\* below an output path that is a regular file
GetCall ==
  /\ pc = "Get"
  /\ getCalls' = getCalls + 1
  /\ \E outcome \in {"written", "nothing", "raise", "raise_partial"} :
       /\ pre.isFile => outcome \in {"nothing", "raise"}
       /\ IF outcome \in {"written", "raise_partial"}
          THEN /\ dirExists' = TRUE
               /\ files' = WriteFile(files, Basename(target_file),
                             IF outcome = "written" THEN "zip" ELSE "partial")
               /\ modes' = WriteFile(modes, Basename(target_file),
                                     DefaultMode)
          ELSE UNCHANGED fsys
       /\ get_result' = outcome
       /\ pc' = IF outcome \in {"written", "nothing"} THEN "GetCheck"
                ELSE "FetchExcept"
  /\ UNCHANGED <<inputs, others, mainv, stages,
                 cwd, located, target_file, fetched, exists_result,
                 existsCalls, unzipv, exc>>

\* lines 221-222
GetCheck ==
  /\ pc = "GetCheck"
  /\ IF PathExists(target_file)
     THEN fetched' = <<target_file>> /\ pc' = "FetchReturned"
     ELSE fetched' = fetched /\ pc' = "FetchNone"
  /\ UNCHANGED <<inputs, others, mainv, stages,
                 fsys, cwd, located, target_file, exists_result,
                 get_result, existsCalls, getCalls, unzipv, exc>>

\* the except clause without lines 227-228
FetchExceptKeepsFile ==
  /\ pc = "FetchExcept"
  /\ pc' = "FetchNone"
  /\ UNCHANGED <<inputs, others, mainv, stages,
                 fsys, cwd, located, fetchv, unzipv, exc>>

\* lines 225-228: the except clause
FetchExcept ==
  /\ pc = "FetchExcept"
  /\ IF PathExists(target_file)
     THEN /\ files' = RemoveFile(files, Basename(target_file))
          /\ modes' = RemoveFile(modes, Basename(target_file))
     ELSE files' = files /\ modes' = modes
  /\ pc' = "FetchNone"
  /\ UNCHANGED <<inputs, others, mainv, stages,
                 dirExists, cwd, located, fetchv, unzipv, exc>>

\* line 229
FetchNone ==
  /\ pc = "FetchNone"
  /\ fetched' = None
  /\ pc' = "FetchReturned"
  /\ UNCHANGED <<inputs, others, mainv, stages,
                 fsys, cwd, located, target_file, exists_result,
                 get_result, existsCalls, getCalls, unzipv, exc>>

\* FetchBuild without lines 59-60
FetchReturnedUnchecked ==
  /\ pc = "FetchReturned"
  /\ filename' = IF fetched = None THEN target_file ELSE fetched[1]
  /\ pc' = "Unzip"
  /\ UNCHANGED <<inputs, others, mainv, stages,
                 fsys, cwd, located, fetchv, archive_size, strategy,
                 command, saved_dir, return_code, idx, exc>>

\* FetchBuild, lines 58-62
FetchReturned ==
  /\ pc = "FetchReturned"
  /\ IF fetched = None
     THEN /\ exc' = Raise("RuntimeError",
                          "Failed to fetch gs://" \o bucket \o "/"
                            \o remote_path \o ".")
          /\ pc' = "raised"
          /\ UNCHANGED filename
     ELSE /\ filename' = fetched[1]
          /\ pc' = "Unzip"
          /\ UNCHANGED exc
  /\ UNCHANGED <<inputs, others, mainv, stages,
                 fsys, cwd, located, fetchv, archive_size, strategy,
                 command, saved_dir, return_code, idx>>

(***************************************************************************)
(* Unzip, lines 246-272.                                                   *)
(***************************************************************************)
sevenzip_path == "C:\\Program Files\\7-Zip\\7z.exe"

\* os.path.getsize
GetSize(p) == IF IsZip(p) THEN store.size ELSE Size(0, 7)

\* the strategy with a size limit that admits the limit itself
UnzipStrategyInclusive(h, size, have7z) ==
  IF IsLinuxHost(h)
     \/ (IsMacHost(h) /\ (SizeLess(size, mac_zip_size_limit)
                             \/ size = mac_zip_size_limit))
  THEN "unzip"
  ELSE IF IsWindowsHost(h) /\ have7z THEN "7z"
  ELSE "zipfile"

\* lines 256-272: the strategy Unzip chooses
UnzipStrategy(h, size, have7z) ==
  IF IsLinuxHost(h) \/ (IsMacHost(h) /\ SizeLess(size, mac_zip_size_limit))
  THEN "unzip"
  ELSE IF IsWindowsHost(h) /\ have7z THEN "7z"
  ELSE "zipfile"

\* lines 259, 268: the command of a strategy, without the file name
UnzipCommand(s) ==
  IF s = "unzip" THEN <<"unzip", "-o">> ELSE <<sevenzip_path, "x", "-y">>

\* line 246, _MakeDirectory: os.makedirs creates the directory or raises;
\* the error EEXIST, which it raises for an existing directory and for an
\* existing regular file alike, is swallowed
MakeDirectory ==
  /\ pc = "Unzip"
  /\ IF dirExists \/ pre.isFile
     THEN pc' = "Select" /\ UNCHANGED <<fsys, exc>>
     ELSE \E created \in BOOLEAN :
            IF created
            THEN /\ dirExists' = TRUE
                 /\ files' = EmptyDir
                 /\ modes' = EmptyDir
                 /\ pc' = "Select"
                 /\ UNCHANGED exc
            ELSE /\ exc' = Raise("OSError", "makedirs")
                 /\ pc' = "raised"
                 /\ UNCHANGED fsys
  /\ stages' = Append(stages, "extract")
  /\ UNCHANGED <<inputs, others, mainv, cwd, located, fetchv, unzipv>>

\* lines 255-272 and 286-287
Select ==
  /\ pc = "Select"
  /\ archive_size' = GetSize(filename)
  /\ strategy' = UnzipStrategy(host, archive_size', sevenzip)
  /\ IF strategy' = "zipfile"
     THEN pc' = "ZipFile" /\ UNCHANGED command
     ELSE /\ command' = UnzipCommand(strategy') \o <<Abspath(cwd, filename)>>
          /\ pc' = "RunEnter"
  /\ UNCHANGED <<inputs, others, mainv, stages,
                 fsys, cwd, located, fetchv, filename, saved_dir,
                 return_code, idx, exc>>

(***************************************************************************)
(* _RunCommandInDirectory, lines 296-300, and _UnzipUsingCommand.          *)
(***************************************************************************)
\* lines 296-297: os.chdir raises when the output path is no directory
RunEnter ==
  /\ pc = "RunEnter"
  /\ saved_dir' = cwd
  /\ IF dirExists
     THEN /\ cwd' = PathJoin(cwd, OutputDir)
          /\ pc' = "RunProcess"
          /\ UNCHANGED exc
     ELSE /\ exc' = Raise("OSError", "chdir")
          /\ pc' = "raised"
          /\ UNCHANGED cwd
  /\ UNCHANGED <<inputs, others, mainv, stages,
                 fsys, located, fetchv, filename, archive_size,
                 strategy, command, return_code, idx>>

\* the output directory after the first k entries of the archive were
\* extracted into it
Extracted(f, k) ==
  [n \in DOMAIN f \cup {store.namelist[i] : i \in 1..k} |->
     IF \E i \in 1..k : store.namelist[i] = n THEN "entry" ELSE f[n]]

\* the modes after the command extracted the first k entries: unzip
\* restores the Unix mode of an entry, 7z on Windows does not
ExtractedModes(m, k) ==
  [n \in DOMAIN m \cup {store.namelist[i] : i \in 1..k} |->
     IF \E i \in 1..k : store.namelist[i] = n
     THEN IF strategy = "unzip"
          THEN ShiftRight16(EntryAttr(CHOOSE i \in 1..k :
                                       store.namelist[i] = n))
          ELSE DefaultMode
     ELSE m[n]]

\* line 298: the command extracts all entries and exits with 0, or exits
\* with another code after it extracted some of the entries
RunProcess ==
  /\ pc = "RunProcess"
  /\ \E rc \in 0..MaxExitCode, k \in 0..Len(store.namelist) :
       /\ rc = 0 => IsZip(filename) /\ k = Len(store.namelist)
       /\ ~IsZip(filename) => k = 0
       /\ return_code' = rc
       /\ files' = Extracted(files, k)
       /\ modes' = ExtractedModes(modes, k)
  /\ pc' = "RunExit"
  /\ UNCHANGED <<inputs, others, mainv, stages,
                 dirExists, cwd, located, fetchv, filename,
                 archive_size, strategy, command, saved_dir, idx, exc>>

\* _RunCommandInDirectory without the os.chdir of line 299
RunExitStays ==
  /\ pc = "RunExit"
  /\ pc' = "CommandCheck"
  /\ UNCHANGED <<inputs, others, mainv, stages, fsys, cwd, located, fetchv,
                 unzipv,
                 exc>>

\* lines 299-300
RunExit ==
  /\ pc = "RunExit"
  /\ cwd' = saved_dir
  /\ pc' = "CommandCheck"
  /\ UNCHANGED <<inputs, others, mainv, stages, fsys, located, fetchv,
                 unzipv, exc>>

\* _RemoveDirectoryTree that removes the files and keeps the directory
RemoveDirectoryTreeKeepsDir(d) ==
  [dirExists |-> d.dirExists, files |-> EmptyDir]

\* _RemoveDirectoryTree, lines 325-331: the directory d after the call
RemoveDirectoryTree(d) ==
  IF d.dirExists THEN [dirExists |-> FALSE, files |-> EmptyDir] ELSE d

\* lines 289-291
CommandCheck ==
  /\ pc = "CommandCheck"
  /\ IF return_code # 0
     THEN /\ LET d == RemoveDirectoryTree([dirExists |-> dirExists,
                                           files |-> files])
             IN /\ dirExists' = d.dirExists
                /\ files' = d.files
                /\ modes' = [n \in DOMAIN d.files |-> modes[n]]
          /\ exc' = [type |-> "IOError", msg |-> "Unzip failed",
                     command |-> command, code |-> return_code]
          /\ pc' = "raised"
     ELSE /\ pc' = "UnzipReturned"
          /\ UNCHANGED <<fsys, exc>>
  /\ UNCHANGED <<inputs, others, mainv, stages, cwd, located, fetchv, unzipv>>

(***************************************************************************)
(* _UnzipUsingZipFile, lines 305-314.                                      *)
(***************************************************************************)
\* lines 305-306
ZipFile ==
  /\ pc = "ZipFile"
  /\ IF ~(IsWindowsHost(host) \/ IsMacHost(host))
     THEN exc' = Raise("AssertionError", "") /\ pc' = "raised"
     ELSE IF ~IsZip(filename)
     THEN exc' = Raise("BadZipfile", "") /\ pc' = "raised"
     ELSE exc' = exc /\ pc' = "ZipLoop"
  /\ idx' = 1
  /\ UNCHANGED <<inputs, others, mainv, stages,
                 fsys, cwd, located, fetchv, filename, archive_size,
                 strategy, command, saved_dir, return_code>>

\* lines 311-314 with a mask in place of the shift
ModeAfterExtractMasked(h, i) ==
  IF IsMacHost(h) THEN EntryAttr(i).lo ELSE DefaultMode

\* lines 310-314: the mode of entry i after zf.extract and, on Mac, os.chmod
ModeAfterExtract(h, i) ==
  IF IsMacHost(h) THEN ShiftRight16(EntryAttr(i)) ELSE DefaultMode

\* the loop of _UnzipUsingZipFile with a removal of the output directory
\* when an entry fails
ZipExtractAllOrNothing ==
  /\ pc = "ZipLoop"
  /\ idx <= Len(store.namelist)
  /\ \E ok \in BOOLEAN :
       IF ok
       THEN /\ dirExists
            /\ files' = WriteFile(files, store.namelist[idx], "entry")
            /\ modes' = WriteFile(modes, store.namelist[idx],
                                  ModeAfterExtract(host, idx))
            /\ idx' = idx + 1
            /\ UNCHANGED <<dirExists, pc, exc>>
       ELSE /\ exc' = Raise("IOError", "extract")
            /\ pc' = "raised"
            /\ dirExists' = FALSE
            /\ files' = EmptyDir
            /\ modes' = EmptyDir
            /\ UNCHANGED idx
  /\ UNCHANGED <<inputs, others, mainv, stages,
                 cwd, located, fetchv, filename, archive_size,
                 strategy, command, saved_dir, return_code>>

\* lines 307-314: one entry is extracted, and its mode restored on Mac, or
\* its extraction raises, as it does when the output path is no directory
ZipExtract ==
  /\ pc = "ZipLoop"
  /\ idx <= Len(store.namelist)
  /\ \E ok \in BOOLEAN :
       IF ok
       THEN /\ dirExists
            /\ files' = WriteFile(files, store.namelist[idx], "entry")
            /\ modes' = WriteFile(modes, store.namelist[idx],
                                  ModeAfterExtract(host, idx))
            /\ idx' = idx + 1
            /\ UNCHANGED <<pc, exc>>
       ELSE /\ exc' = Raise("IOError", "extract")
            /\ pc' = "raised"
            /\ UNCHANGED <<files, modes, idx>>
  /\ UNCHANGED <<inputs, others, mainv, stages,
                 dirExists, cwd, located, fetchv, filename,
                 archive_size, strategy, command, saved_dir, return_code>>

\* line 307: the loop ends
ZipDone ==
  /\ pc = "ZipLoop"
  /\ idx > Len(store.namelist)
  /\ pc' = "UnzipReturned"
  /\ UNCHANGED <<inputs, others, mainv, stages,
                 fsys, cwd, located, fetchv, unzipv, exc>>

\* Unzip returns to FetchBuild, or to the caller of a direct call
UnzipReturned ==
  /\ pc = "UnzipReturned"
  /\ pc' = IF call = "FetchBuild" THEN "Cleanup" ELSE "returned"
  /\ UNCHANGED <<inputs, others, mainv, stages,
                 fsys, cwd, located, fetchv, unzipv, exc>>

\* FetchBuild without lines 64-65
CleanupKeepsArchive ==
  /\ pc = "Cleanup"
  /\ pc' = "returned"
  /\ UNCHANGED <<inputs, others, mainv, stages,
                 fsys, cwd, located, fetchv, unzipv, exc>>

\* FetchBuild, lines 64-65
Cleanup ==
  /\ pc = "Cleanup"
  /\ IF PathExists(filename)
     THEN /\ files' = RemoveFile(files, Basename(filename))
          /\ modes' = RemoveFile(modes, Basename(filename))
     ELSE files' = files /\ modes' = modes
  /\ pc' = "returned"
  /\ stages' = Append(stages, "delete")
  /\ UNCHANGED <<inputs, others, mainv,
                 dirExists, cwd, located, fetchv, unzipv, exc>>

(***************************************************************************)
(* Main, lines 345-356: a run of FetchBuild is a run of the script.        *)
(***************************************************************************)
SuccessMessage ==
  "Build has been downloaded to and extracted in " \o OutputDir \o "."

\* lines 350-352 and 356: FetchBuild has returned, the message is printed
\* and the script exits with 0
MainReturn ==
  /\ call = "FetchBuild"
  /\ pc = "returned"
  /\ exit_code = NoExit
  /\ stdout' = Append(stdout, SuccessMessage)
  /\ exit_code' = 0
  /\ UNCHANGED <<inputs, others, stages, fsys, cwd, pc, located, fetchv, unzipv,
                 exc>>

\* Main with an except clause that swallows the exception of FetchBuild
MainRaiseSwallowed ==
  /\ call = "FetchBuild"
  /\ pc = "raised"
  /\ exit_code = NoExit
  /\ stdout' = Append(stdout, SuccessMessage)
  /\ exit_code' = 0
  /\ UNCHANGED <<inputs, others, stages, fsys, cwd, pc, located, fetchv, unzipv,
                 exc>>

\* lines 345 and 356: the exception of FetchBuild leaves Main and ends the
\* script with the status 1
MainRaise ==
  /\ call = "FetchBuild"
  /\ pc = "raised"
  /\ exit_code = NoExit
  /\ exit_code' = 1
  /\ UNCHANGED <<inputs, others, stages, stdout, fsys, cwd, pc, located, fetchv,
                 unzipv, exc>>

Next ==
  \/ Create
  \/ FetchEnter
  \/ ExistsCall
  \/ GetCall
  \/ GetCheck
  \/ FetchExcept
  \/ FetchNone
  \/ FetchReturned
  \/ MakeDirectory
  \/ Select
  \/ RunEnter
  \/ RunProcess
  \/ RunExit
  \/ CommandCheck
  \/ ZipFile
  \/ ZipExtract
  \/ ZipDone
  \/ UnzipReturned
  \/ Cleanup
  \/ MainReturn
  \/ MainRaise

Spec == Init /\ [][Next]_vars

(***************************************************************************)
(* Two threads of one process in _RunCommandInDirectory, lines 294-300.    *)
(* os.getcwd and os.chdir act on the one working directory of the process. *)
(***************************************************************************)
Threads == {1, 2}
\* the output directories the invocations may name, relative or absolute
ThreadDirs == {"out1", "out2", "/b/out1", "/b/out2"}
\* the directories that exist
ExistingDirs == {OrigCwd, "/b/out1", "/b/out2"}

\* the variables of fetch_build.py but the working directory
fetch_build == <<inputs, fsys, pc, located, fetchv, unzipv, exc, stages,
                mainv>>

\* neither FetchBuild nor Unzip is running
FetchBuildParked ==
  /\ host = [os |-> "linux", bits64 |-> TRUE]
  /\ sevenzip = FALSE
  /\ call = "none"
  /\ args = [builder_type |-> PERF_BUILDER, revision |-> "12345",
             target_arch |-> "ia32", target_platform |-> "chromium",
             deps_patch_sha |-> None]
  /\ store = [present |-> FALSE, namelist |-> <<>>, size |-> Size(0, 0)]
  /\ dirExists = FALSE /\ files = EmptyDir /\ modes = EmptyDir
  /\ pre = [dirExists |-> FALSE, files |-> EmptyDir, isFile |-> FALSE]
  /\ pc = "none"
  /\ platform = "" /\ bucket = "" /\ remote_path = ""
  /\ target_file = "" /\ fetched = None
  /\ exists_result = "none" /\ get_result = "none"
  /\ archive_size = Size(0, 0)
  /\ filename = ""
  /\ strategy = "none" /\ command = <<>>
  /\ saved_dir = "" /\ return_code = 0 /\ idx = 0
  /\ exc = NoExc
  /\ existsCalls = 0 /\ getCalls = 0
  /\ stages = <<>>
  /\ stdout = <<>> /\ exit_code = NoExit

InitThreads ==
  /\ FetchBuildParked
  /\ DeviceParked
  /\ cwd = OrigCwd
  /\ t_pc = [t \in Threads |-> "getcwd"]
  /\ t_directory \in [Threads -> ThreadDirs]
  /\ \A t, u \in Threads :
       t # u => PathJoin(OrigCwd, t_directory[t])
                  # PathJoin(OrigCwd, t_directory[u])
  /\ t_saved_dir = [t \in Threads |-> ""]
  /\ t_return_code = [t \in Threads |-> NoExit]
  /\ t_ran_in = [t \in Threads |-> ""]

\* line 296: saved_dir = os.getcwd()
ThreadGetcwd(t) ==
  /\ t_pc[t] = "getcwd"
  /\ t_saved_dir' = [t_saved_dir EXCEPT ![t] = cwd]
  /\ t_pc' = [t_pc EXCEPT ![t] = "chdir"]
  /\ UNCHANGED <<fetch_build, devicev, cwd, t_directory, t_return_code,
                 t_ran_in>>

\* line 297: os.chdir(directory); a relative directory is resolved against
\* the working directory of this moment, and a missing one raises OSError
ThreadChdir(t) ==
  /\ t_pc[t] = "chdir"
  /\ IF PathJoin(cwd, t_directory[t]) \in ExistingDirs
     THEN /\ cwd' = PathJoin(cwd, t_directory[t])
          /\ t_pc' = [t_pc EXCEPT ![t] = "RunProcess"]
     ELSE /\ cwd' = cwd
          /\ t_pc' = [t_pc EXCEPT ![t] = "raised"]
  /\ UNCHANGED <<fetch_build, devicev, t_directory, t_saved_dir,
                 t_return_code, t_ran_in>>

\* line 298: the command starts in the working directory of this moment
\* and exits with some code
ThreadRunProcess(t) ==
  /\ t_pc[t] = "RunProcess"
  /\ t_ran_in' = [t_ran_in EXCEPT ![t] = cwd]
  /\ \E rc \in 0..MaxExitCode :
       t_return_code' = [t_return_code EXCEPT ![t] = rc]
  /\ t_pc' = [t_pc EXCEPT ![t] = "chdir_back"]
  /\ UNCHANGED <<fetch_build, devicev, cwd, t_directory, t_saved_dir>>

\* lines 299-300: os.chdir(saved_dir); return return_code
ThreadChdirBack(t) ==
  /\ t_pc[t] = "chdir_back"
  /\ cwd' = t_saved_dir[t]
  /\ t_pc' = [t_pc EXCEPT ![t] = "done"]
  /\ UNCHANGED <<fetch_build, devicev, t_directory, t_saved_dir,
                 t_return_code, t_ran_in>>

NextThreads ==
  \E t \in Threads :
    \/ ThreadGetcwd(t)
    \/ ThreadChdir(t)
    \/ ThreadRunProcess(t)
    \/ ThreadChdirBack(t)

SpecThreads == InitThreads /\ [][NextThreads]_vars

(***************************************************************************)
(* PerfControl, build/android/pylib/perf/perf_control.py.  One PerfControl *)
(* object on one device; the commands run as root take effect on a rooted  *)
(* device only, and the cpufreq files of a CPU exist while it is online.   *)
(***************************************************************************)
MaxCpus == 2
MaxCalls == 2

ProductModels == {"Nexus 4", "Nexus 5", "Nexus 7", "other"}
Methods == {"SetHighPerfMode", "SetPerfProfilingMode", "SetDefaultPerfMode"}

\* lines 76-83: governor_mode
GovernorMode(model) ==
  CASE model = "GT-I9300" -> "pegasusq"
    [] model = "Galaxy Nexus" -> "interactive"
    [] model = "Nexus 4" -> "ondemand"
    [] model = "Nexus 5" -> "ondemand"
    [] model = "Nexus 7" -> "interactive"
    [] model = "Nexus 10" -> "interactive"
    [] OTHER -> "ondemand"

\* an entry of the log of the device: a script of RunShellCommand or a
\* WriteFile, with the CPU, the text and the number it carries
Sent(cmd, c, str, num) == [cmd |-> cmd, cpu |-> c, str |-> str, num |-> num]

\* the method that is running, or was called last
Method == method_calls[Len(method_calls)]

\* lines 109-117
AllCpusAreOnline ==
  \A c \in 1..(num_cpu_cores - 1) : online[c] # "missing" /\ online[c] # "0"

\* the cpufreq files of CPU c exist: test -e $FILE of lines 91 and 100
CpufreqExists(c) == c = 0 \/ online[c] = "1"

InitPerf ==
  /\ FetchBuildParked
  /\ ThreadsParked
  /\ cwd = OrigCwd
  /\ root \in BOOLEAN
  /\ product_model \in ProductModels
  /\ num_cpu_cores \in 1..MaxCpus
  /\ have_mpdecision \in BOOLEAN
  /\ mpdecision = have_mpdecision
  /\ online \in [0..(num_cpu_cores - 1) -> {"missing", "0", "1"}]
  /\ online[0] = "1"
  /\ governor = [c \in 0..(num_cpu_cores - 1) |-> GovernorMode(product_model)]
  /\ max_freq = [c \in 0..(num_cpu_cores - 1) |-> 2265600]
  /\ max_gpuclk = 450000000
  /\ device_log = <<>>
  /\ method_calls = <<>>
  /\ ppc = "idle"
  /\ cpu = 0
  /\ perf_exc = ""

\* a client calls a method of the PerfControl object
CallMethod ==
  /\ ppc = "idle"
  /\ Len(method_calls) < MaxCalls
  /\ \E m \in Methods :
       /\ method_calls' = Append(method_calls, m)
       /\ ppc' = m
  /\ UNCHANGED <<fetch_build, cwd, threadv, root, product_model,
                 num_cpu_cores, have_mpdecision, mpdecision, online,
                 governor, max_freq, max_gpuclk, device_log, cpu, perf_exc>>

\* the kernel or mpdecision takes a CPU other than CPU 0 offline or online
HotPlug ==
  /\ ppc \notin {"none", "raised"}
  /\ \E c \in 1..(num_cpu_cores - 1) :
       /\ online[c] # "missing"
       /\ online' = [online EXCEPT ![c] = IF online[c] = "1" THEN "0"
                                           ELSE "1"]
  /\ UNCHANGED <<fetch_build, cwd, threadv, root, product_model,
                 num_cpu_cores, have_mpdecision, mpdecision, governor,
                 max_freq, max_gpuclk, device_log, method_calls, ppc, cpu,
                 perf_exc>>

\* SetHighPerfMode that does not ask for root
SetHighPerfModeAnyDevice ==
  /\ ppc = "SetHighPerfMode"
  /\ ppc' = IF product_model \in {"Nexus 4", "Nexus 5"}
            THEN "_ForceAllCpusOnline"
            ELSE "_SetScalingGovernorInternal"
  /\ UNCHANGED <<fetch_build, cwd, threadv, root, product_model,
                 num_cpu_cores, have_mpdecision, mpdecision, online,
                 governor, max_freq, max_gpuclk, device_log, method_calls,
                 cpu, perf_exc>>

\* lines 32-42, 47 and 54: the test for root and the branch on the model
SetHighPerfMode ==
  /\ ppc = "SetHighPerfMode"
  /\ ppc' = IF ~root THEN "idle"
            ELSE IF product_model \in {"Nexus 4", "Nexus 5"}
            THEN "_ForceAllCpusOnline"
            ELSE "_SetScalingGovernorInternal"
  /\ UNCHANGED <<fetch_build, cwd, threadv, root, product_model,
                 num_cpu_cores, have_mpdecision, mpdecision, online,
                 governor, max_freq, max_gpuclk, device_log, method_calls,
                 cpu, perf_exc>>

\* line 59: SetPerfProfilingMode starts with _ForceAllCpusOnline(True)
SetPerfProfilingMode ==
  /\ ppc = "SetPerfProfilingMode"
  /\ ppc' = "_ForceAllCpusOnline"
  /\ UNCHANGED <<fetch_build, cwd, threadv, root, product_model,
                 num_cpu_cores, have_mpdecision, mpdecision, online,
                 governor, max_freq, max_gpuclk, device_log, method_calls,
                 cpu, perf_exc>>

\* lines 68-72: the test for root, the branch on the model and the test of
\* the CPUs of a Nexus 5
SetDefaultPerfMode ==
  /\ ppc = "SetDefaultPerfMode"
  /\ ppc' = IF ~root THEN "idle"
            ELSE IF product_model = "Nexus 5" /\ AllCpusAreOnline
            THEN "_SetScalingMaxFreq"
            ELSE "_SetScalingGovernorInternal"
  /\ UNCHANGED <<fetch_build, cwd, threadv, root, product_model,
                 num_cpu_cores, have_mpdecision, mpdecision, online,
                 governor, max_freq, max_gpuclk, device_log, method_calls,
                 cpu, perf_exc>>

\* _ForceAllCpusOnline that leaves mpdecision alone
ForceAllCpusOnlineKeepsMpdecision ==
  /\ ppc = "_ForceAllCpusOnline"
  /\ IF Method # "SetDefaultPerfMode"
     THEN ppc' = "WriteOnline" /\ cpu' = 0
     ELSE ppc' = "idle" /\ cpu' = cpu
  /\ UNCHANGED <<fetch_build, cwd, threadv, root, product_model,
                 num_cpu_cores, have_mpdecision, mpdecision, online,
                 governor, max_freq, max_gpuclk, device_log, method_calls,
                 perf_exc>>

\* lines 133-141: mpdecision is stopped or started when the device has it;
\* force_online is False in SetDefaultPerfMode only (lines 43, 48, 59, 85)
ForceAllCpusOnline ==
  /\ ppc = "_ForceAllCpusOnline"
  /\ LET force_online == Method # "SetDefaultPerfMode"
     IN /\ IF have_mpdecision
           THEN /\ device_log' =
                     Append(device_log,
                            Sent(IF force_online THEN "stop mpdecision"
                                 ELSE "start mpdecision", 0, "", 0))
                /\ mpdecision' = IF root THEN ~force_online ELSE mpdecision
           ELSE UNCHANGED <<device_log, mpdecision>>
        /\ IF force_online
           THEN ppc' = "WriteOnline" /\ cpu' = 0
           ELSE ppc' = "idle" /\ cpu' = cpu
  /\ UNCHANGED <<fetch_build, cwd, threadv, root, product_model,
                 num_cpu_cores, have_mpdecision, online, governor, max_freq,
                 max_gpuclk, method_calls, perf_exc>>

\* lines 143-145: one turn of the loop, or its end
WriteOnline ==
  /\ ppc = "WriteOnline"
  /\ IF cpu < num_cpu_cores
     THEN /\ device_log' = Append(device_log,
                                  Sent("write online", cpu, "1", 0))
          /\ online' = IF root /\ online[cpu] # "missing"
                       THEN [online EXCEPT ![cpu] = "1"]
                       ELSE online
          /\ cpu' = cpu + 1
          /\ ppc' = ppc
     ELSE /\ ppc' = "_SetScalingGovernorInternal"
          /\ UNCHANGED <<device_log, online, cpu>>
  /\ UNCHANGED <<fetch_build, cwd, threadv, root, product_model,
                 num_cpu_cores, have_mpdecision, mpdecision, governor,
                 max_freq, max_gpuclk, method_calls, perf_exc>>

\* lines 87-94, called at lines 46, 51, 55, 60 and 84; the tests of lines
\* 44 and 49 before it only log a warning
SetScalingGovernorInternal ==
  /\ ppc = "_SetScalingGovernorInternal"
  /\ LET value == IF Method = "SetDefaultPerfMode"
                  THEN GovernorMode(product_model) ELSE "performance"
     IN /\ device_log' = Append(device_log,
                                Sent("scaling_governor", 0, value, 0))
        /\ governor' = [c \in DOMAIN governor |->
                          IF root /\ CpufreqExists(c) THEN value
                          ELSE governor[c]]
  /\ ppc' = CASE Method = "SetDefaultPerfMode" -> "_ForceAllCpusOnline"
              [] Method = "SetPerfProfilingMode" -> "CheckOnline"
              [] Method = "SetHighPerfMode" ->
                   IF product_model = "Nexus 5" THEN "_SetScalingMaxFreq"
                   ELSE "idle"
  /\ UNCHANGED <<fetch_build, cwd, threadv, root, product_model,
                 num_cpu_cores, have_mpdecision, mpdecision, online,
                 max_freq, max_gpuclk, method_calls, cpu, perf_exc>>

\* lines 96-102, called at lines 52 and 73
SetScalingMaxFreq ==
  /\ ppc = "_SetScalingMaxFreq"
  /\ LET value == IF Method = "SetDefaultPerfMode" THEN 2265600 ELSE 1190400
     IN /\ device_log' = Append(device_log,
                                Sent("scaling_max_freq", 0, "", value))
        /\ max_freq' = [c \in DOMAIN max_freq |->
                          IF root /\ CpufreqExists(c) THEN value
                          ELSE max_freq[c]]
  /\ ppc' = "_SetMaxGpuClock"
  /\ UNCHANGED <<fetch_build, cwd, threadv, root, product_model,
                 num_cpu_cores, have_mpdecision, mpdecision, online,
                 governor, max_gpuclk, method_calls, cpu, perf_exc>>

\* lines 104-107, called at lines 53 and 74
SetMaxGpuClock ==
  /\ ppc = "_SetMaxGpuClock"
  /\ LET value == IF Method = "SetDefaultPerfMode" THEN 450000000
                  ELSE 200000000
     IN /\ device_log' = Append(device_log, Sent("max_gpuclk", 0, "", value))
        /\ max_gpuclk' = IF root THEN value ELSE max_gpuclk
  /\ ppc' = IF Method = "SetDefaultPerfMode"
            THEN "_SetScalingGovernorInternal" ELSE "idle"
  /\ UNCHANGED <<fetch_build, cwd, threadv, root, product_model,
                 num_cpu_cores, have_mpdecision, mpdecision, online,
                 governor, max_freq, method_calls, cpu, perf_exc>>

\* lines 61-64 of SetPerfProfilingMode
CheckOnline ==
  /\ ppc = "CheckOnline"
  /\ IF AllCpusAreOnline
     THEN ppc' = "idle" /\ perf_exc' = perf_exc
     ELSE /\ ppc' = "raised"
          /\ perf_exc' = IF ~root THEN "Need root to force CPUs online."
                         ELSE "Failed to force CPUs online."
  /\ UNCHANGED <<fetch_build, cwd, threadv, root, product_model,
                 num_cpu_cores, have_mpdecision, mpdecision, online,
                 governor, max_freq, max_gpuclk, device_log, method_calls,
                 cpu>>

NextPerf ==
  \/ CallMethod
  \/ HotPlug
  \/ SetHighPerfMode
  \/ SetPerfProfilingMode
  \/ SetDefaultPerfMode
  \/ ForceAllCpusOnline
  \/ WriteOnline
  \/ SetScalingGovernorInternal
  \/ SetScalingMaxFreq
  \/ SetMaxGpuClock
  \/ CheckOnline

SpecPerf == InitPerf /\ [][NextPerf]_vars

(***************************************************************************)
(* Properties.                                                             *)
(***************************************************************************)
SupportedBuilder == args.builder_type \in {PERF_BUILDER, FULL_BUILDER}
\* the constructor of BuildArchive has run
Constructed == call = "FetchBuild" /\ pc # "FetchBuild" /\ SupportedBuilder
\* the constructor has run and raised nothing
Located == Constructed /\ platform # ""
UnknownPlatformRaised ==
  /\ pc = "raised"
  /\ exc.type = "NotImplementedError"
  /\ exc.msg = "Unknown platform"

\* C1: the constructor of BuildArchive resolves the host, the architecture
\* and the platform by the rule table: Linux and 'android' give android, any
\* other Linux gives linux, Mac gives mac, 64-bit Windows and 'x64' give
\* win64, any other Windows gives win, and every other host fails with
\* NotImplementedError.
C1_PlatformTable ==
  Constructed =>
    /\ (host.os = "linux" /\ args.target_platform = "android")
         => platform = "android"
    /\ (host.os = "linux" /\ args.target_platform # "android")
         => platform = "linux"
    /\ host.os = "mac" => platform = "mac"
    /\ (host.os = "win" /\ host.bits64 /\ args.target_arch = "x64")
         => platform = "win64"
    /\ (host.os = "win" /\ ~(host.bits64 /\ args.target_arch = "x64"))
         => platform = "win"
    /\ host.os \in {"linux", "mac", "win"} => ~UnknownPlatformRaised
    /\ host.os \notin {"linux", "mac", "win"}
         => UnknownPlatformRaised /\ platform = ""

C1_Witness ==
  /\ Constructed
  /\ host.os = "linux"
  /\ args.target_platform = "android"
  /\ args.target_arch = "x64"
  /\ platform = "android"

\* the platform name of the claim: win32 for win and win64, linux for linux
\* and android, mac for mac
ClaimedPlatformName ==
  CASE platform \in {"win", "win64"} -> "win32"
    [] platform \in {"linux", "android"} -> "linux"
    [] platform = "mac" -> "mac"

\* C2: FilePath is <archiveDirectory>/full-build-<platformName>_<revision>
\* [_<depsPatchHash>].zip, with the hash segment exactly when a hash is
\* supplied; Performance/linux/12345 gives
\* 'Linux Builder/full-build-linux_12345.zip' and Full/win64/12345/abcd gives
\* 'chromium.win/Win x64 Builder/full-build-win32_12345_abcd.zip'.
C2_FilePathFormat ==
  Located =>
    /\ remote_path =
         ArchiveDirectory(args.builder_type, platform) \o "/full-build-"
           \o ClaimedPlatformName \o "_" \o args.revision
           \o (IF args.deps_patch_sha = None THEN ""
               ELSE "_" \o args.deps_patch_sha[1])
           \o ".zip"
    /\ (/\ args.builder_type = PERF_BUILDER
        /\ platform = "linux"
        /\ args.revision = "12345"
        /\ args.deps_patch_sha = None)
         => remote_path = "Linux Builder/full-build-linux_12345.zip"
    /\ (/\ args.builder_type = FULL_BUILDER
        /\ platform = "win64"
        /\ args.revision = "12345"
        /\ args.deps_patch_sha = <<"abcd">>)
         => remote_path =
              "chromium.win/Win x64 Builder/full-build-win32_12345_abcd.zip"

C2_Witness ==
  /\ Located
  /\ args.builder_type = FULL_BUILDER
  /\ platform = "win64"
  /\ args.deps_patch_sha = <<"abcd">>
  /\ remote_path =
       "chromium.win/Win x64 Builder/full-build-win32_12345_abcd.zip"

\* an extraction command has run and exited with a code other than 0, and
\* _UnzipUsingCommand has handled the code
CommandFailed ==
  /\ strategy \in {"unzip", "7z"}
  /\ return_code # 0
  /\ pc \notin {"RunExit", "CommandCheck"}

C4_AbsentObject ==
  exists_result = "false" =>
    /\ getCalls = 0
    /\ get_result = "none"
    /\ fetched = None
    /\ dirExists = pre.dirExists
    /\ files = pre.files
    /\ pc \in {"FetchNone", "FetchReturned", "raised"}
    /\ pc = "raised" => exc.type = "RuntimeError"
    /\ pc # "raised" => exc = NoExc

C4_Witness ==
  /\ exists_result = "false"
  /\ pc = "FetchReturned"
  /\ fetched = None
  /\ existsCalls = 1

\* Exists or Get has raised
TransportRaised ==
  exists_result = "raise" \/ get_result \in {"raise", "raise_partial"}

\* C5: when Exists or Get raises, FetchFromCloudStorage returns None and
\* raises nothing itself, and no file is at the target path when it returns.
C5_TransportException ==
  (TransportRaised /\ pc # "FetchExcept") =>
    /\ pc \in {"FetchNone", "FetchReturned", "raised"}
    /\ fetched = None
    /\ ~PathExists(target_file)
    /\ pc = "raised" => exc.type = "RuntimeError"
    /\ pc # "raised" => exc = NoExc

C5_Witness ==
  /\ get_result = "raise_partial"
  /\ pc = "FetchReturned"
  /\ fetched = None
  /\ ~PathExists(target_file)

\* every entry of the archive is in the output directory, extracted
AllExtracted ==
  \A i \in 1..Len(store.namelist) :
    /\ store.namelist[i] \in DOMAIN files
    /\ files[store.namelist[i]] = "entry"

\* C6: when FetchBuild returns without raising, the output directory exists
\* and holds the extracted entries of the archive, and the staged archive
\* file is not in it.
C6_SuccessfulFetchBuild ==
  (call = "FetchBuild" /\ pc = "returned") =>
    /\ exc = NoExc
    /\ dirExists
    /\ AllExtracted
    /\ Basename(remote_path) \notin DOMAIN files
    /\ ~PathExists(PathJoin(OutputDir, Basename(remote_path)))

C6_Witness ==
  /\ call = "FetchBuild"
  /\ pc = "returned"
  /\ args.builder_type = PERF_BUILDER
  /\ args.revision = "R1"
  /\ host.os = "linux"
  /\ Len(store.namelist) >= 1
  /\ AllExtracted

\* FetchFromCloudStorage is running
Fetching ==
  pc \in {"Fetch", "Exists", "Get", "GetCheck", "FetchExcept", "FetchNone",
          "FetchReturned"}

\* C7: when FetchFromCloudStorage returns None, for an absent object or
\* after a transport error alike, FetchBuild raises RuntimeError with a
\* message that names the bucket and the remote path, and Unzip is not
\* called.
C7_FetchFailure ==
  (call = "FetchBuild" /\ target_file # "" /\ fetched = None /\ ~Fetching) =>
    /\ pc = "raised"
    /\ exc.type = "RuntimeError"
    /\ exc.msg = "Failed to fetch gs://" \o BucketName(args.builder_type,
                                                       platform)
                   \o "/" \o remote_path \o "."
    /\ filename = ""
    /\ strategy = "none"
    /\ idx = 0

C7_Witness ==
  /\ call = "FetchBuild"
  /\ exists_result = "raise"
  /\ pc = "raised"
  /\ exc.type = "RuntimeError"
  /\ strategy = "none"

\* C8: Unzip picks the unzip command on Linux, and on Mac for an archive
\* below 2^32 bytes; otherwise the 7z command on Windows when the archiver
\* exists; otherwise the in-process extraction, as for a Mac archive of
\* exactly 2^32 bytes and for Windows without the archiver.
C8_StrategyPriority ==
  strategy # "none" =>
    LET byUnzip == \/ host.os = "linux"
                   \/ /\ host.os = "mac"
                      /\ SizeLess(archive_size, Size(Radix, 0))
        by7z == ~byUnzip /\ host.os = "win" /\ sevenzip
    IN /\ byUnzip => strategy = "unzip"
       /\ by7z => strategy = "7z"
       /\ (~byUnzip /\ ~by7z) => strategy = "zipfile"
       /\ (host.os = "mac" /\ archive_size = Size(Radix, 0))
            => strategy = "zipfile"
       /\ (host.os = "win" /\ ~sevenzip) => strategy = "zipfile"
       /\ pc \in {"RunEnter", "RunProcess", "RunExit", "CommandCheck"}
            => /\ strategy \in {"unzip", "7z"}
               /\ command[1] = IF strategy = "unzip" THEN "unzip"
                               ELSE sevenzip_path
       /\ pc \in {"ZipFile", "ZipLoop"} => strategy = "zipfile"

C8_Witness ==
  /\ host.os = "mac"
  /\ archive_size = Size(Radix, 0)
  /\ strategy = "zipfile"
  /\ pc = "ZipLoop"

\* the extraction of a FetchBuild invocation has failed
ExtractionFailed ==
  call = "FetchBuild" /\ pc = "raised" /\ strategy # "none"

EndedWithStagedFile ==
  /\ call = "FetchBuild"
  /\ pc \in {"returned", "raised"}
  /\ get_result \in {"written", "raise_partial"}

ModeOfEntry(i) == IF i % 2 = 1 THEN 33261 ELSE 33152

\* C11: the in-process extraction on Mac leaves every extracted file with
\* the mode external_attr >> 16 of its own entry, set before the next entry
\* is extracted; on Windows it leaves the mode the extraction gave the file.
C11_ModesRestoredOnMac ==
  strategy = "zipfile" =>
    \A i \in 1..(idx - 1) :
      /\ store.namelist[i] \in DOMAIN modes
      /\ host.os = "mac" =>
           /\ modes[store.namelist[i]] = ModeOfEntry(i)
           /\ EntryAttr(i) = Size(modes[store.namelist[i]], EntryAttr(i).lo)
      /\ host.os = "win" => modes[store.namelist[i]] = DefaultMode

C11_Witness ==
  /\ strategy = "zipfile"
  /\ host.os = "mac"
  /\ idx = 3
  /\ modes["f1"] = 33261
  /\ modes["f2"] = 33152

\* C12: the bucket is 'chrome-perf' for the Performance variant and, for the
\* Full variant, chromium-android, chromium-linux-archive,
\* chromium-mac-archive or chromium-win-archive (win and win64); every
\* platform the constructor resolves has an entry in every table, so that
\* BucketName and FilePath do not fail.
C12_BucketTable ==
  Located =>
    /\ platform \in Platforms
    /\ platform \in DOMAIN PerfArchiveDirectory
    /\ platform \in DOMAIN FullArchiveDirectory
    /\ platform \in DOMAIN FullBucket
    /\ exc.type \notin {"AssertionError", "NotImplementedError"}
    /\ remote_path # ""
    /\ args.builder_type = PERF_BUILDER => bucket = "chrome-perf"
    /\ args.builder_type = FULL_BUILDER =>
         bucket = CASE platform = "android" -> "chromium-android"
                    [] platform = "linux" -> "chromium-linux-archive"
                    [] platform = "mac" -> "chromium-mac-archive"
                    [] platform \in {"win", "win64"} -> "chromium-win-archive"

C12_Witness ==
  /\ Located
  /\ args.builder_type = FULL_BUILDER
  /\ platform = "win64"
  /\ bucket = "chromium-win-archive"
  /\ pc = "Fetch"

\* the output path, the working directory and the storage calls are as they
\* were before the call
NothingTouched ==
  /\ existsCalls = 0
  /\ getCalls = 0
  /\ dirExists = pre.dirExists
  /\ files = pre.files
  /\ modes = [n \in DOMAIN pre.files |-> DefaultMode]
  /\ cwd = OrigCwd

\* C13: for a builder type other than 'perf' and 'full', FetchBuild raises
\* NotImplementedError before any call of Exists or Get and before any
\* change of a file or a directory.
C13_UnsupportedBuilderType ==
  (call = "FetchBuild" /\ ~SupportedBuilder /\ pc # "FetchBuild") =>
    /\ pc = "raised"
    /\ exc.type = "NotImplementedError"
    /\ exc.msg = "Builder type \"try\" not supported."
    /\ NothingTouched
    /\ target_file = ""
    /\ strategy = "none"

C13_Witness ==
  /\ call = "FetchBuild"
  /\ args.builder_type = "try"
  /\ pc = "raised"
  /\ store.present
  /\ pre.dirExists
  /\ NothingTouched

\* C14: Main prints the success message and exits with 0 only after
\* FetchBuild has returned; when FetchBuild raises, the exception leaves
\* Main, the exit status is not 0 and the message is not printed.
C14_MainExit ==
  call = "FetchBuild" =>
    /\ exit_code = 0 =>
         /\ pc = "returned"
         /\ exc = NoExc
         /\ stdout
              = <<"Build has been downloaded to and extracted in out.">>
    /\ stdout # <<>> => pc = "returned" /\ exit_code = 0
    /\ pc = "raised" =>
         /\ stdout = <<>>
         /\ exit_code \in {NoExit, 1}
         /\ exc.type # "none"
    /\ exit_code = 1 => pc = "raised"

C14_Witness ==
  /\ call = "FetchBuild"
  /\ pc = "returned"
  /\ exit_code = 0
  /\ stdout = <<SuccessMessage>>

\* the files of the output directory that were not there before the call
CreatedFiles == DOMAIN files \ DOMAIN pre.files

\* C15: in one call of FetchFromCloudStorage Exists is called at most once,
\* Get at most once and only after Exists answered true, and at most one
\* file is created in the destination directory; nothing is retried.
C15_NoRetry ==
  /\ existsCalls <= 1
  /\ getCalls <= 1
  /\ getCalls = 1 => exists_result = "true" /\ existsCalls = 1
  /\ exists_result \in {"false", "raise"} => getCalls = 0
  /\ (Fetching \/ (pc = "raised" /\ strategy = "none")) =>
       /\ Cardinality(CreatedFiles) <= 1
       /\ CreatedFiles \subseteq {Basename(target_file)}

C15_Witness ==
  /\ pc = "FetchReturned"
  /\ existsCalls = 1
  /\ getCalls = 1
  /\ get_result = "written"
  /\ CreatedFiles = {Basename(remote_path)}

\* the in-process extraction has raised at an entry
InProcessFailed ==
  /\ strategy = "zipfile"
  /\ pc = "raised"
  /\ exc = Raise("IOError", "extract")

\* C17: when the in-process extraction fails at an entry, the failure
\* leaves Unzip and the output directory is not removed: the entries
\* extracted before the failing one and the files of before are still there.
C17_InProcessNotAtomic ==
  InProcessFailed =>
    /\ idx \in 1..Len(store.namelist)
    /\ dirExists \/ pre.isFile
    /\ \A i \in 1..(idx - 1) :
         /\ store.namelist[i] \in DOMAIN files
         /\ files[store.namelist[i]] = "entry"
    /\ DOMAIN pre.files \subseteq DOMAIN files
    /\ cwd = OrigCwd

C17_Witness ==
  /\ InProcessFailed
  /\ call = "Unzip"
  /\ idx = 2
  /\ "f1" \in DOMAIN files
  /\ files["f1"] = "entry"

\* C18, as claimed: when _MakeDirectory returns without raising, the output
\* path is a directory, and what it held before is unchanged.
C18_DirectoryEnsured ==
  pc = "Select" =>
    /\ dirExists
    /\ pre.dirExists => files = pre.files \/ call = "FetchBuild"

\* the stages of FetchBuild, in the order of the code
StageOrder == <<"locate", "fetch", "extract", "delete">>

\* C19: FetchBuild runs locate, fetch, extract and the deletion of the staged
\* archive in this order, each at most once and only after the stages
\* before it completed without failure.
C19_StageOrder ==
  call = "FetchBuild" =>
    /\ Len(stages) <= 4
    /\ stages = SubSeq(StageOrder, 1, Len(stages))
    /\ Len(stages) >= 2 => Located /\ bucket # "" /\ remote_path # ""
    /\ Len(stages) >= 3 =>
         /\ fetched = <<target_file>>
         /\ getCalls = 1
         /\ get_result \in {"written", "nothing"}
    /\ Len(stages) = 4 =>
         /\ exc = NoExc
         /\ AllExtracted
         /\ pc = "returned"
    /\ pc = "returned" => Len(stages) = 4

C19_Witness ==
  /\ call = "FetchBuild"
  /\ stages = <<"locate", "fetch", "extract", "delete">>
  /\ pc = "returned"

\* FetchBuild has failed in Create on a host that is none of Linux, Mac and
\* Windows, for a builder type that is not known
UnknownHostAndBuilder ==
  /\ call = "FetchBuild"
  /\ pc = "raised"
  /\ host.os \notin {"linux", "mac", "win"}
  /\ ~SupportedBuilder

\* C20, as claimed: on a host that is none of Linux, Mac and Windows a call
\* with a builder type that is not known fails for the platform.
C20_PlatformBeforeBuilder ==
  UnknownHostAndBuilder => exc.msg = "Unknown platform"

\* C20, amended: the builder type is validated before the platform is
\* resolved, and on such a host such a call fails for the builder type.
C20_BuilderBeforePlatform ==
  UnknownHostAndBuilder =>
    /\ exc.type = "NotImplementedError"
    /\ exc.msg = "Builder type \"try\" not supported."
    /\ platform = ""

C20_Witness ==
  /\ UnknownHostAndBuilder
  /\ host.os = "other"
  /\ args.builder_type = "try"
  /\ exc.msg = "Builder type \"try\" not supported."

\* a command-based strategy has been selected
CommandStrategy == strategy \in {"unzip", "7z"}

\* C21: the extraction command runs with the output directory as working
\* directory, and once the command has exited, with zero or with another
\* code, the working directory of the process is the one of before the call.
C21_WorkingDirectoryRestored ==
  /\ pc \in {"RunProcess", "RunExit"} =>
       /\ CommandStrategy
       /\ dirExists
       /\ saved_dir = OrigCwd
       /\ cwd = "/b/out"
  /\ (CommandStrategy
        /\ pc \in {"CommandCheck", "UnzipReturned", "Cleanup", "returned",
                   "raised"}) =>
       cwd = OrigCwd
  /\ (pc = "raised" /\ exc.type = "IOError" /\ exc.code # 0) =>
       cwd = OrigCwd /\ return_code = exc.code

C21_Witness ==
  /\ CommandStrategy
  /\ pc = "raised"
  /\ return_code # 0
  /\ exc.code = return_code
  /\ saved_dir = OrigCwd
  /\ cwd = OrigCwd

ReturnedNone == pc = "FetchReturned" /\ fetched = None

\* C25, as claimed: when FetchFromCloudStorage returns None, every file
\* that was in the destination directory before the call is still there
\* with its content, a file named like the remote object included.
C25_PreExistingFilesKept ==
  ReturnedNone =>
    \A n \in DOMAIN pre.files : n \in DOMAIN files /\ files[n] = pre.files[n]

\* C22, as claimed: of two invocations with different output directories
\* that run in one process at the same time, each runs its command in its own
\* output directory, and when both have finished the working directory of
\* the process is the one of before.
C22_OwnDirectoryAndRestored ==
  /\ \A t \in Threads :
       t_ran_in[t] # "" => t_ran_in[t] = PathJoin(OrigCwd, t_directory[t])
  /\ (\A t \in Threads : t_pc[t] \in {"done", "raised"}) => cwd = OrigCwd

\* non-empty hashes of patched dependencies
PatchShas == {<<"abcd">>, <<"abce">>, <<"ef">>}

\* C24: for the variant, the platform and the revision of a call, the path
\* with a non-empty hash differs from the path without a hash, and two
\* different non-empty hashes give two different paths.
C24_HashDisambiguates ==
  Located =>
    LET path(h) == FilePath(args.builder_type, platform, args.revision, h)
    IN /\ remote_path = path(args.deps_patch_sha)
       /\ \A h \in PatchShas : path(h) # path(None)
       /\ \A h1, h2 \in PatchShas : h1 # h2 => path(h1) # path(h2)
       /\ \A h \in PatchShas \ {args.deps_patch_sha} : remote_path # path(h)
       /\ args.deps_patch_sha # None => remote_path # path(None)

C24_Witness ==
  /\ Located
  /\ args.builder_type = FULL_BUILDER
  /\ args.deps_patch_sha = <<"abcd">>
  /\ platform = "linux"
  /\ remote_path
       = "chromium.linux/Linux Builder/full-build-linux_12345_abcd.zip"
  /\ remote_path # FilePath(FULL_BUILDER, "linux", "12345", None)

\* the device is not rooted and only SetHighPerfMode and SetDefaultPerfMode
\* have been called
UnrootedModeCalls ==
  /\ ppc # "none"
  /\ ~root
  /\ \A i \in 1..Len(method_calls) :
       method_calls[i] \in {"SetHighPerfMode", "SetDefaultPerfMode"}

\* C26: on a device without root SetHighPerfMode and SetDefaultPerfMode
\* send no shell command and no file write to the device; governor, maximum
\* frequency, GPU clock and mpdecision stay as they were.
C26_NoRootNoCommand ==
  UnrootedModeCalls =>
    /\ device_log = <<>>
    /\ governor = [c \in 0..(num_cpu_cores - 1) |->
                     GovernorMode(product_model)]
    /\ max_freq = [c \in 0..(num_cpu_cores - 1) |-> 2265600]
    /\ max_gpuclk = 450000000
    /\ mpdecision = have_mpdecision
    /\ ppc \in {"idle", "SetHighPerfMode", "SetDefaultPerfMode"}
    /\ perf_exc = ""

C26_Witness ==
  /\ UnrootedModeCalls
  /\ method_calls = <<"SetHighPerfMode", "SetDefaultPerfMode">>
  /\ ppc = "idle"
  /\ have_mpdecision
  /\ num_cpu_cores = 2
  /\ device_log = <<>>

\* the entries of the log that write the 'performance' governor
PerformanceWrites ==
  {i \in 1..Len(device_log) :
     /\ device_log[i].cmd = "scaling_governor"
     /\ device_log[i].str = "performance"}

\* before entry i of the log mpdecision was stopped, when the device has
\* it, and '1' was written to the online file of every CPU
ForcedOnlineBefore(i) ==
  /\ have_mpdecision =>
       \E j \in 1..(i - 1) : device_log[j].cmd = "stop mpdecision"
  /\ \A c \in 0..(num_cpu_cores - 1) :
       \E j \in 1..(i - 1) :
         /\ device_log[j].cmd = "write online"
         /\ device_log[j].cpu = c
         /\ device_log[j].str = "1"

\* the first call on the object is SetHighPerfMode on a rooted device
FirstCallHighPerf ==
  /\ Len(method_calls) = 1
  /\ Method = "SetHighPerfMode"
  /\ root

\* the first call on the object is SetPerfProfilingMode
FirstCallProfiling ==
  /\ Len(method_calls) = 1
  /\ Method = "SetPerfProfilingMode"

\* C27, as claimed: SetHighPerfMode on a rooted device of any model and
\* SetPerfProfilingMode write the 'performance' governor only after the
\* stop of mpdecision and the writes of '1' to all online files.
C27_GovernorAfterForceAnyModel ==
  (FirstCallHighPerf \/ FirstCallProfiling) =>
    \A i \in PerformanceWrites : ForcedOnlineBefore(i)

\* C27, amended: this order holds for SetHighPerfMode on a rooted Nexus 4
\* or Nexus 5 and for SetPerfProfilingMode; on a rooted device of another
\* model SetHighPerfMode sends the governor script and nothing else.
C27_GovernorAfterForce ==
  /\ ((FirstCallHighPerf /\ product_model \in {"Nexus 4", "Nexus 5"})
       \/ FirstCallProfiling) =>
       /\ \A i \in PerformanceWrites : ForcedOnlineBefore(i)
       /\ (PerformanceWrites # {} /\ root /\ have_mpdecision) => ~mpdecision
  /\ (FirstCallHighPerf /\ product_model \notin {"Nexus 4", "Nexus 5"}) =>
       /\ device_log \in {<<>>, <<Sent("scaling_governor", 0,
                                      "performance", 0)>>}
       /\ mpdecision = have_mpdecision
       /\ ppc = "idle" => device_log # <<>>

C27_Witness ==
  /\ FirstCallHighPerf
  /\ product_model = "Nexus 4"
  /\ have_mpdecision
  /\ num_cpu_cores = 2
  /\ ppc = "idle"
  /\ Len(device_log) = 4
  /\ PerformanceWrites = {4}
  /\ device_log[1].cmd = "stop mpdecision"

\* C28, as claimed: on a rooted Nexus 5, after SetHighPerfMode and then
\* SetDefaultPerfMode the maximum frequency is 2265600, the GPU clock
\* 450000000, the governor 'ondemand' and mpdecision runs when the device
\* has it.
C28_DefaultsRestored ==
  (/\ root
   /\ product_model = "Nexus 5"
   /\ method_calls = <<"SetHighPerfMode", "SetDefaultPerfMode">>
   /\ ppc = "idle") =>
    /\ max_freq[0] = 2265600
    /\ max_gpuclk = 450000000
    /\ governor[0] = "ondemand"
    /\ have_mpdecision => mpdecision

====
